---- MODULE Spec2Model ----
(***************************************************************************)
(* The module lifecycle manager of GO-ImportAuto: the factory registry,    *)
(* resolveDependencies, ModuleManager.Update, rebuildRouter / handler and  *)
(* the main / watcher goroutine that drives them (src/module/module.go).   *)
(***************************************************************************)
EXTENDS Naturals, Integers, Sequences, FiniteSets, TLC

\* ------------------------------------------------------------------ bounds
MaxUpdates == 3     \* Update calls in one run (startup reconcile included)
MaxReq     == 2     \* length of cfg.Modules
MaxEdges   == 3     \* dependency declarations in a drawn registry (SpecResolve)
StackLimit == 4     \* nested visit calls the goroutine stack holds
MaxLiveUpdates == 2 \* Update calls in a run of SpecLive
MaxNest    == 2     \* maps and lists nested in a value handed to ExpandConfig
MaxItems   == 2     \* elements of a list in such a value
MaxStr     == 8     \* length of a string handed to ExpandEnv

\* ------------------------------------------------------------------ names
Registered == {"user", "auth", "order"}        \* keys of registry.Modules
Ghost      == "ghost"                          \* a name with no factory
Names      == Registered \cup {Ghost}
CfgVals    == {"none", "a"}                    \* cfg.Configs[name]; "none": no entry

Empty == [n \in {} |-> 0]                      \* make(map[string]module.Module)

\* registry.Modules with the Deps() of each factory's module
RealRegistry ==
    [n \in Registered |-> IF n = "order" THEN <<"auth">> ELSE <<>>]

SeqsUpTo(S, k) == UNION {[1..n -> S] : n \in 0..k}
NoDup(s) == \A i, j \in 1..Len(s) : s[i] = s[j] => i = j

\* the snapshots loadConfig can return
ModuleLists == SeqsUpTo(Names, MaxReq)
\* the configs section of config.yaml: blocks for user and order
ConfigBlocks == {f \in [Registered -> CfgVals] : f["auth"] = "none"}
Snapshots   == [Modules : ModuleLists, Configs : ConfigBlocks]

\* the registries resolveDependencies is checked on (SpecResolve)
DepLists == {s \in SeqsUpTo(Names, MaxEdges) : NoDup(s)}
Graphs ==
    {g \in [Registered -> DepLists] :
        Len(g["user"]) + Len(g["auth"]) + Len(g["order"]) <= MaxEdges}

VARIABLES
    registry,     \* registry.Modules: name -> Deps() of the module its factory makes
    cfg,          \* the Config handed to rebuildRouter
    active,       \* manager.active: name -> instance
    router,       \* the package variable router: 0 is nil, else an engine
    engines,      \* the reachable gin engines: engine -> instances registered on it
    insts,        \* the reachable module instances: instance -> [name, cfg, state]
    pc,           \* position of the main / watcher goroutine
    res,          \* (ordered, err) of resolveDependencies
    newActive,    \* Update's newActive
    r,            \* Update's r
    idx,          \* loop index of Update's two loops
    ret,          \* the engine Update returns
    globalRouter, \* owner of the mutex globalRouter
    lock,         \* owner of manager.lock
    rpc,          \* position of a request goroutine inside handler()
    rret,         \* what its last handler() call returned
    log,          \* Init and Shutdown calls of the Update in progress, each with
                  \* the line Update prints after it
    orphans,      \* names with an initialized instance dropped without Shutdown
    failedInit,   \* names whose Init failed in the last Update that reached it
    prevModules,  \* cfg.Modules of the previous Update call
    applied,      \* cfg.Modules of the last Update that reached m.active = newActive
    updates,      \* number of Update calls so far
    raw,          \* the string ExpandEnv, or the value ExpandConfig, is called with
    environ,      \* the process environment: what os.Getenv gives for EnvKey
    expanded      \* what ExpandEnv, or ExpandConfig, returned

vars == <<registry, cfg, active, router, engines, insts, pc, res, newActive, r,
          idx, ret, globalRouter, lock, rpc, rret, log, orphans, failedInit,
          prevModules, applied, updates, raw, environ, expanded>>

NoCfg == [Modules |-> <<>>, Configs |-> [n \in Registered |-> "none"]]
NoRes == [order |-> <<>>, err |-> "", unit |-> ""]

Range(f) == {f[x] : x \in DOMAIN f}
Restrict(f, S) == [x \in DOMAIN f \cap S |-> f[x]]

\* ------------------------------------------------------- resolveDependencies
RECURSIVE visit(_, _, _), visitAll(_, _, _, _)

\* visit with the append moved before the loop over the dependencies
visitPre(name, st, depth) ==
    IF depth > StackLimit
    THEN [st EXCEPT !.err = "overflow"]
    ELSE IF name \in st.visited
    THEN st
    ELSE IF name \notin DOMAIN registry
    THEN [st EXCEPT !.err = "unknown", !.unit = name]
    ELSE visitAll(registry[name], 1,
                  [st EXCEPT !.visited = @ \cup {name}, !.result = Append(@, name)],
                  depth + 1)

\* visit without the loop over the dependencies
visitNoDeps(name, st, depth) ==
    IF depth > StackLimit
    THEN [st EXCEPT !.err = "overflow"]
    ELSE IF name \in st.visited
    THEN st
    ELSE IF name \notin DOMAIN registry
    THEN [st EXCEPT !.err = "unknown", !.unit = name]
    ELSE [st EXCEPT !.visited = @ \cup {name}, !.result = Append(@, name)]

\* visit without the visited[name] test at its head
visitNoMemo(name, st, depth) ==
    IF depth > StackLimit
    THEN [st EXCEPT !.err = "overflow"]
    ELSE IF name \notin DOMAIN registry
    THEN [st EXCEPT !.err = "unknown", !.unit = name]
    ELSE LET after == visitAll(registry[name], 1, st, depth + 1)
         IN  IF after.err # ""
             THEN after
             ELSE [after EXCEPT !.visited = @ \cup {name},
                                !.result = Append(@, name)]

\* the closure visit: st is (visited, result) plus the error being returned
visit(name, st, depth) ==
    IF depth > StackLimit
    THEN [st EXCEPT !.err = "overflow"]
    ELSE IF name \in st.visited
    THEN st
    ELSE IF name \notin DOMAIN registry
    THEN [st EXCEPT !.err = "unknown", !.unit = name]
    ELSE LET after == visitAll(registry[name], 1, st, depth + 1)
         IN  IF after.err # ""
             THEN after
             ELSE [after EXCEPT !.visited = @ \cup {name},
                                !.result = Append(@, name)]

RECURSIVE visitAllRev(_, _, _, _)
\* the loop over names taken from the last name to the first
visitAllRev(names, k, st, depth) ==
    IF k > Len(names)
    THEN st
    ELSE LET s1 == visit(names[Len(names) + 1 - k], st, depth)
         IN  IF s1.err # "" THEN s1 ELSE visitAllRev(names, k + 1, s1, depth)

\* for _, n := range names { if err := visit(n); err != nil { return err } }
visitAll(names, k, st, depth) ==
    IF k > Len(names)
    THEN st
    ELSE LET s1 == visit(names[k], st, depth)
         IN  IF s1.err # "" THEN s1 ELSE visitAll(names, k + 1, s1, depth)

resolveDependencies(modNames) ==
    LET s == visitAll(modNames, 1,
                      [visited |-> {}, result |-> <<>>, err |-> "", unit |-> ""], 1)
    IN  IF s.err # ""
        THEN [order |-> <<>>, err |-> s.err, unit |-> s.unit]
        ELSE [order |-> s.result, err |-> "", unit |-> ""]

\* -------------------------------------------------------------- reachability
\* Engines and instances nothing refers to any more are unobservable (the
\* garbage collector's view of the heap); the model keeps the reachable ones.
LiveEngines(rt, rr, rl, rv) == {rt, rr, rl, rv} \ {0}

LiveInsts(act, nact, es, lg) ==
    Range(act) \cup Range(nact)
        \cup UNION {{es[e][i] : i \in 1..Len(es[e])} : e \in DOMAIN es}
        \cup {lg[i].inst : i \in 1..Len(lg)}

\* ------------------------------------------------------------------ Init
Init ==
    /\ registry = RealRegistry
    /\ cfg = NoCfg
    /\ active = Empty
    /\ router = 0
    /\ engines = Empty
    /\ insts = Empty
    /\ pc = "main"
    /\ res = NoRes
    /\ newActive = Empty
    /\ r = 0
    /\ idx = 0
    /\ ret = 0
    /\ globalRouter = "free"
    /\ lock = "free"
    /\ rpc = "idle"
    /\ rret = 0
    /\ log = <<>>
    /\ orphans = {}
    /\ failedInit = {}
    /\ prevModules = <<>>
    /\ applied = <<>>
    /\ updates = 0
    /\ raw = <<>>
    /\ environ = <<>>
    /\ expanded = <<>>

\* ------------------------------------------------- main and the watcher loop
\* main: cfg, err := loadConfig(); rebuildRouter(cfg)
Main ==
    /\ pc = "main"
    /\ \E c \in Snapshots : cfg' = c
    /\ pc' = "rebuild"
    /\ UNCHANGED <<raw, environ, expanded>>
    /\ UNCHANGED <<registry, active, router, engines, insts, res, newActive, r,
                   idx, ret, globalRouter, lock, rpc, rret, log, orphans,
                   failedInit, prevModules, applied, updates>>

\* dump mode without the return: main goes on to the normal startup
DumpFallsThrough ==
    /\ pc = "dump"
    /\ pc' = "rebuild"
    /\ UNCHANGED <<raw, environ, expanded>>
    /\ UNCHANGED <<registry, cfg, active, router, engines, insts, res, newActive,
                   r, idx, ret, globalRouter, lock, rpc, rret, log, orphans,
                   failedInit, prevModules, applied, updates>>

\* main, os.Args[1] == "dump": fmt.Println(string(data)); return
DumpReturn ==
    /\ pc = "dump"
    /\ cfg' = NoCfg
    /\ pc' = "exit"
    /\ UNCHANGED <<raw, environ, expanded>>
    /\ UNCHANGED <<registry, active, router, engines, insts, res, newActive, r,
                   idx, ret, globalRouter, lock, rpc, rret, log, orphans,
                   failedInit, prevModules, applied, updates>>

\* main, os.Args[1] == "dump": cfg, err := loadConfig(), or log.Fatal on err
Dump ==
    /\ pc = "main"
    /\ \/ \E c \in Snapshots : cfg' = c /\ pc' = "dump"
       \/ cfg' = cfg /\ pc' = "exit"
    /\ UNCHANGED <<raw, environ, expanded>>
    /\ UNCHANGED <<registry, active, router, engines, insts, res, newActive, r,
                   idx, ret, globalRouter, lock, rpc, rret, log, orphans,
                   failedInit, prevModules, applied, updates>>

\* an event starts a rebuildRouter wherever the previous one stands
NotifyAnytime ==
    /\ pc \notin {"main", "crashed"}
    /\ updates < MaxUpdates
    /\ \E c \in Snapshots : cfg' = c
    /\ pc' = "rebuild"
    /\ UNCHANGED <<raw, environ, expanded>>
    /\ UNCHANGED <<registry, active, router, engines, insts, res, newActive, r,
                   idx, ret, globalRouter, lock, rpc, rret, log, orphans,
                   failedInit, prevModules, applied, updates>>

\* watcher: a Write/Create event whose loadConfig succeeds
Notify ==
    /\ pc = "watch"
    /\ updates < MaxUpdates
    /\ \E c \in Snapshots : cfg' = c
    /\ pc' = "rebuild"
    /\ UNCHANGED <<raw, environ, expanded>>
    /\ UNCHANGED <<registry, active, router, engines, insts, res, newActive, r,
                   idx, ret, globalRouter, lock, rpc, rret, log, orphans,
                   failedInit, prevModules, applied, updates>>

\* watcher: a Write/Create event whose loadConfig returns an error
NotifyLoadError ==
    /\ pc = "watch"
    /\ pc' = "loaderr"
    /\ UNCHANGED <<raw, environ, expanded>>
    /\ UNCHANGED <<registry, cfg, active, router, engines, insts, res, newActive,
                   r, idx, ret, globalRouter, lock, rpc, rret, log, orphans,
                   failedInit, prevModules, applied, updates>>

\* the load error is printed and the zero Config is reconciled all the same
LoadErrorReconciles ==
    /\ pc = "loaderr"
    /\ updates < MaxUpdates
    /\ cfg' = NoCfg
    /\ pc' = "rebuild"
    /\ UNCHANGED <<raw, environ, expanded>>
    /\ UNCHANGED <<registry, active, router, engines, insts, res, newActive, r,
                   idx, ret, globalRouter, lock, rpc, rret, log, orphans,
                   failedInit, prevModules, applied, updates>>

\* watcher: fmt.Println("Error loading config:", err); continue
LoadErrorContinue ==
    /\ pc = "loaderr"
    /\ pc' = "watch"
    /\ UNCHANGED <<raw, environ, expanded>>
    /\ UNCHANGED <<registry, cfg, active, router, engines, insts, res, newActive,
                   r, idx, ret, globalRouter, lock, rpc, rret, log, orphans,
                   failedInit, prevModules, applied, updates>>

\* rebuildRouter: globalRouter.Lock()
RebuildLock ==
    /\ pc = "rebuild"
    /\ globalRouter = "free"
    /\ globalRouter' = "main"
    /\ pc' = "update"
    /\ UNCHANGED <<raw, environ, expanded>>
    /\ UNCHANGED <<registry, cfg, active, router, engines, insts, res, newActive,
                   r, idx, ret, lock, rpc, rret, log, orphans, failedInit,
                   prevModules, applied, updates>>

\* Update: m.lock.Lock()
UpdateLock ==
    /\ pc = "update"
    /\ lock = "free"
    /\ lock' = "main"
    /\ updates' = updates + 1
    /\ pc' = "resolve"
    /\ UNCHANGED <<raw, environ, expanded>>
    /\ UNCHANGED <<registry, cfg, active, router, engines, insts, res, newActive,
                   r, idx, ret, globalRouter, rpc, rret, log, orphans,
                   failedInit, prevModules, applied>>

\* the published engine is taken again instead of a new one
ReusePublished == IF router # 0 THEN router ELSE updates

\* gin.Default(): a new engine with no module routes
NewEngine == updates

\* Update: the stack of the goroutine overflows inside visit (fatal)
ResolveOverflow ==
    /\ pc' = "crashed"
    /\ UNCHANGED <<active, engines, insts, log, newActive, r, idx, ret, lock>>

\* the error return with m.active already replaced by the empty newActive
ResolveFailedResets ==
    /\ engines' = (NewEngine :> <<>>) @@ engines
    /\ ret' = NewEngine
    /\ lock' = "free"
    /\ pc' = "publish"
    /\ active' = Empty
    /\ UNCHANGED <<insts, log, newActive, r, idx>>

\* the error return without the deferred m.lock.Unlock()
ResolveFailedKeepsLock ==
    /\ engines' = (NewEngine :> <<>>) @@ engines
    /\ ret' = NewEngine
    /\ lock' = lock
    /\ pc' = "publish"
    /\ UNCHANGED <<active, insts, log, newActive, r, idx>>

\* the error return hands back nil instead of an engine
ResolveFailedNil ==
    /\ engines' = engines
    /\ ret' = 0
    /\ lock' = "free"
    /\ pc' = "publish"
    /\ UNCHANGED <<active, insts, log, newActive, r, idx>>

\* Update: if err != nil { return gin.Default() }
ResolveFailed ==
    /\ engines' = (NewEngine :> <<>>) @@ engines
    /\ ret' = NewEngine
    /\ lock' = "free"
    /\ pc' = "publish"
    /\ UNCHANGED <<active, insts, log, newActive, r, idx>>

\* the instance resolveDependencies made of the first unit is initialized
ResolveOkInits ==
    /\ engines' = (NewEngine :> <<>>) @@ engines
    /\ newActive' = Empty
    /\ r' = NewEngine
    /\ idx' = 1
    /\ pc' = IF Len(res'.order) = 0 THEN "commit" ELSE "start"
    /\ IF Len(res'.order) = 0
       THEN UNCHANGED <<insts, log>>
       ELSE /\ insts' = (<<updates, 0>> :> [name |-> res'.order[1], cfg |-> "none",
                                             state |-> "inited"]) @@ insts
            /\ log' = Append(log, [op |-> "Init", name |-> res'.order[1],
                                   inst |-> <<updates, 0>>, cfg |-> "none",
                                   ok |-> TRUE, line |-> "Started module:"])
    /\ UNCHANGED <<active, ret, lock>>

\* Update: newActive := make(...); r := gin.Default()
ResolveOk ==
    /\ engines' = (NewEngine :> <<>>) @@ engines
    /\ newActive' = Empty
    /\ r' = NewEngine
    /\ idx' = 1
    /\ pc' = IF Len(res'.order) = 0 THEN "commit" ELSE "start"
    /\ UNCHANGED <<active, insts, log, ret, lock>>

\* Update: ordered, err := resolveDependencies(cfg.Modules) and what follows it
UpdateResolve ==
    /\ pc = "resolve"
    /\ res' = resolveDependencies(cfg.Modules)
    /\ IF res'.err = "overflow"
       THEN ResolveOverflow
       ELSE IF res'.err # "" THEN ResolveFailed ELSE ResolveOk
    /\ UNCHANGED <<raw, environ, expanded>>
    /\ UNCHANGED <<registry, cfg, router, globalRouter, rpc, rret, orphans,
                   failedInit, prevModules, applied, updates>>

\* old.RegisterRoutes(r) / mod.RegisterRoutes(r)
RegisterRoutes(es, eng, inst) == [es EXCEPT ![eng] = Append(@, inst)]

\* the line Update prints after mod.Init(modCfg) returned
InitLine(ok) == IF ok THEN "Started module:" ELSE "Failed to init module:"

\* the line Update prints after old.Shutdown() returned
ShutdownLine(ok) == IF ok THEN "Stopped module:" ELSE "Error shutting down module:"

\* what Update hands back besides the engine: its only result is *gin.Engine
UpdateErrs == {}

\* mod := newFn(): the instance made in this Update at this loop position
NewInst == <<updates, idx>>

\* StartModule without the continue after a failed Init
StartModuleKeepsFailed(name, ok) ==
    LET mod == NewInst
        modCfg == cfg.Configs[name]
    IN  /\ insts' = (mod :> [name |-> name, cfg |-> modCfg,
                             state |-> IF ok THEN "inited" ELSE "failed"]) @@ insts
        /\ log' = Append(log, [op |-> "Init", name |-> name, inst |-> mod,
                               cfg |-> modCfg, ok |-> ok, line |-> InitLine(ok)])
        /\ engines' = RegisterRoutes(engines, r, mod)
        /\ newActive' = (name :> mod) @@ newActive

\* Init is handed an empty ModuleConfig whatever the snapshot declares
StartModuleNoCfg(name, ok) ==
    LET mod == NewInst
        modCfg == "none"
    IN  /\ insts' = (mod :> [name |-> name, cfg |-> modCfg,
                             state |-> IF ok THEN "inited" ELSE "failed"]) @@ insts
        /\ log' = Append(log, [op |-> "Init", name |-> name, inst |-> mod,
                               cfg |-> modCfg, ok |-> ok, line |-> InitLine(ok)])
        /\ IF ok
           THEN /\ engines' = RegisterRoutes(engines, r, mod)
                /\ newActive' = (name :> mod) @@ newActive
           ELSE UNCHANGED <<engines, newActive>>

\* Update: the branch that constructs a module and calls Init, which returns
\* nil (ok) or an error
StartModule(name, ok) ==
    LET mod == NewInst
        modCfg == cfg.Configs[name]
    IN  /\ insts' = (mod :> [name |-> name, cfg |-> modCfg,
                             state |-> IF ok THEN "inited" ELSE "failed"]) @@ insts
        /\ log' = Append(log, [op |-> "Init", name |-> name, inst |-> mod,
                               cfg |-> modCfg, ok |-> ok, line |-> InitLine(ok)])
        /\ IF ok
           THEN /\ engines' = RegisterRoutes(engines, r, mod)
                /\ newActive' = (name :> mod) @@ newActive
           ELSE UNCHANGED <<engines, newActive>>

\* a module already in m.active is constructed and initialized again
RestartModule(name) == StartModule(name, TRUE)

\* a module already in m.active is initialized again when its block changed
ReinitOnChange(name) ==
    IF cfg.Configs[name] # insts[active[name]].cfg
    THEN StartModule(name, TRUE)
    ELSE /\ newActive' = (name :> active[name]) @@ newActive
         /\ engines' = RegisterRoutes(engines, r, active[name])
         /\ UNCHANGED <<insts, log>>

\* a kept module registers its routes on the published router
KeepModuleOnPublished(name) ==
    /\ newActive' = (name :> active[name]) @@ newActive
    /\ engines' = RegisterRoutes(engines, router, active[name])
    /\ UNCHANGED <<insts, log>>

\* a kept module is not registered on the new engine
KeepModuleNoRoutes(name) ==
    /\ newActive' = (name :> active[name]) @@ newActive
    /\ UNCHANGED <<engines, insts, log>>

\* Update: the branch that keeps a module already in m.active
KeepModule(name) ==
    /\ newActive' = (name :> active[name]) @@ newActive
    /\ engines' = RegisterRoutes(engines, r, active[name])
    /\ UNCHANGED <<insts, log>>

\* the start loop with break in the place of continue
UpdateStartBreaks ==
    /\ pc = "start"
    /\ \E ok \in BOOLEAN :
        LET name == res.order[idx]
            kept == name \in DOMAIN active
        IN  /\ IF kept
               THEN KeepModule(name)
               ELSE IF name \in DOMAIN registry
               THEN StartModule(name, ok)
               ELSE UNCHANGED <<newActive, engines, insts, log>>
            /\ IF idx < Len(res.order) /\ (kept \/ ok)
               THEN idx' = idx + 1 /\ pc' = "start"
               ELSE idx' = Len(res.order) /\ pc' = "stop"
    /\ UNCHANGED <<raw, environ, expanded>>
    /\ UNCHANGED <<registry, cfg, active, router, res, r, ret, globalRouter, lock,
                   rpc, rret, orphans, failedInit, prevModules, applied, updates>>

\* the start loop leaves out a unit whose Init failed in the Update before
UpdateStartSkipsFailed ==
    /\ pc = "start"
    /\ LET name == res.order[idx]
       IN  IF name \in DOMAIN active
           THEN KeepModule(name)
           ELSE IF name \in DOMAIN registry /\ name \notin failedInit
           THEN \E ok \in BOOLEAN : StartModule(name, ok)
           ELSE UNCHANGED <<newActive, engines, insts, log>>
    /\ IF idx < Len(res.order)
       THEN idx' = idx + 1 /\ pc' = "start"
       ELSE idx' = Len(res.order) /\ pc' = "stop"
    /\ UNCHANGED <<raw, environ, expanded>>
    /\ UNCHANGED <<registry, cfg, active, router, res, r, ret, globalRouter, lock,
                   rpc, rret, orphans, failedInit, prevModules, applied, updates>>

\* Update: one iteration of the start loop
UpdateStart ==
    /\ pc = "start"
    /\ LET name == res.order[idx]
       IN  IF name \in DOMAIN active
           THEN KeepModule(name)
           ELSE IF name \in DOMAIN registry
           THEN \E ok \in BOOLEAN : StartModule(name, ok)
           ELSE UNCHANGED <<newActive, engines, insts, log>>
    /\ IF idx < Len(res.order)
       THEN idx' = idx + 1 /\ pc' = "start"
       ELSE idx' = Len(res.order) /\ pc' = "stop"
    /\ UNCHANGED <<raw, environ, expanded>>
    /\ UNCHANGED <<registry, cfg, active, router, res, r, ret, globalRouter, lock,
                   rpc, rret, orphans, failedInit, prevModules, applied, updates>>

\* Update: one iteration of the stop loop
UpdateStop ==
    /\ pc = "stop"
    /\ LET name == res.order[idx]
       IN  IF name \in DOMAIN newActive
           THEN UNCHANGED <<insts, log>>
           ELSE IF name \in DOMAIN active
           THEN \E ok \in BOOLEAN :
                /\ insts' = [insts EXCEPT ![active[name]].state = "shutdown"]
                /\ log' = Append(log, [op |-> "Shutdown", name |-> name,
                                       inst |-> active[name], cfg |-> "none",
                                       ok |-> ok, line |-> ShutdownLine(ok)])
           ELSE UNCHANGED <<insts, log>>
    /\ IF idx > 1
       THEN idx' = idx - 1 /\ pc' = "stop"
       ELSE idx' = 0 /\ pc' = "commit"
    /\ UNCHANGED <<raw, environ, expanded>>
    /\ UNCHANGED <<registry, cfg, active, router, engines, res, newActive, r, ret,
                   globalRouter, lock, rpc, rret, orphans, failedInit, prevModules,
                   applied, updates>>

\* newActive is merged into m.active instead of replacing it
UpdateCommitMerges ==
    /\ pc = "commit"
    /\ active' = newActive @@ active
    /\ ret' = r
    /\ lock' = "free"
    /\ applied' = cfg.Modules
    /\ failedInit' = {log[i].name : i \in {j \in 1..Len(log) :
                                            log[j].op = "Init" /\ ~log[j].ok}}
    /\ orphans' = orphans
    /\ newActive' = Empty
    /\ r' = 0
    /\ idx' = 0
    /\ log' = <<>>
    /\ insts' = Restrict(insts, LiveInsts(active', Empty, engines, <<>>))
    /\ pc' = "publish"
    /\ UNCHANGED <<raw, environ, expanded>>
    /\ UNCHANGED <<registry, cfg, router, engines, res, globalRouter, rpc, rret,
                   prevModules, updates>>

\* Update returns without the deferred m.lock.Unlock()
UpdateCommitKeepsLock ==
    /\ pc = "commit"
    /\ active' = newActive
    /\ ret' = r
    /\ applied' = cfg.Modules
    /\ failedInit' = {log[i].name : i \in {j \in 1..Len(log) :
                                            log[j].op = "Init" /\ ~log[j].ok}}
    /\ orphans' = orphans \cup
           {n \in DOMAIN active : /\ active[n] \notin Range(newActive)
                                   /\ insts[active[n]].state = "inited"}
    /\ newActive' = Empty
    /\ r' = 0
    /\ idx' = 0
    /\ log' = <<>>
    /\ insts' = Restrict(insts, LiveInsts(active', Empty, engines, <<>>))
    /\ pc' = "publish"
    /\ UNCHANGED <<raw, environ, expanded>>
    /\ UNCHANGED <<registry, cfg, router, engines, res, globalRouter, rpc, rret,
                   prevModules, updates, lock>>

\* Update: m.active = newActive; return r (and the deferred Unlock)
UpdateCommit ==
    /\ pc = "commit"
    /\ active' = newActive
    /\ ret' = r
    /\ lock' = "free"
    /\ applied' = cfg.Modules
    /\ failedInit' = {log[i].name : i \in {j \in 1..Len(log) :
                                            log[j].op = "Init" /\ ~log[j].ok}}
    /\ orphans' = orphans \cup
           {n \in DOMAIN active : /\ active[n] \notin Range(newActive)
                                   /\ insts[active[n]].state = "inited"}
    /\ newActive' = Empty
    /\ r' = 0
    /\ idx' = 0
    /\ log' = <<>>
    /\ insts' = Restrict(insts, LiveInsts(active', Empty, engines, <<>>))
    /\ pc' = "publish"
    /\ UNCHANGED <<raw, environ, expanded>>
    /\ UNCHANGED <<registry, cfg, router, engines, res, globalRouter, rpc, rret,
                   prevModules, updates>>

\* rebuildRouter: router = manager.Update(cfg) (and the deferred Unlock)
RebuildPublish ==
    /\ pc = "publish"
    /\ router' = ret
    /\ globalRouter' = "free"
    /\ prevModules' = cfg.Modules
    /\ cfg' = NoCfg
    /\ res' = NoRes
    /\ ret' = 0
    /\ engines' = Restrict(engines, LiveEngines(router', 0, 0, rret))
    /\ insts' = Restrict(insts, LiveInsts(active, Empty, engines', <<>>))
    /\ pc' = "watch"
    /\ UNCHANGED <<raw, environ, expanded>>
    /\ UNCHANGED <<registry, active, newActive, r, idx, lock, rpc, rret, log,
                   orphans, failedInit, applied, updates>>

\* ------------------------------------------------------------------ handler
\* ginEngine.Run: requests are served once the startup rebuildRouter returned
Serving == updates > 0 /\ pc # "crashed"

\* handler: globalRouter.Lock()
HandlerLock ==
    /\ Serving
    /\ rpc = "idle"
    /\ globalRouter = "free"
    /\ globalRouter' = "reader"
    /\ rpc' = "locked"
    /\ UNCHANGED <<raw, environ, expanded>>
    /\ UNCHANGED <<registry, cfg, active, router, engines, insts, pc, res,
                   newActive, r, idx, ret, lock, rret, log, orphans, failedInit,
                   prevModules, applied, updates>>

\* handler: return router (and the deferred Unlock)
HandlerReturn ==
    /\ rpc = "locked"
    /\ rret' = router
    /\ globalRouter' = "free"
    /\ rpc' = "idle"
    /\ engines' = Restrict(engines, LiveEngines(router, r, ret, rret'))
    /\ insts' = Restrict(insts, LiveInsts(active, newActive, engines', log))
    /\ UNCHANGED <<raw, environ, expanded>>
    /\ UNCHANGED <<registry, cfg, active, router, pc, res, newActive, r, idx, ret,
                   lock, log, orphans, failedInit, prevModules, applied, updates>>

Next ==
    \/ Main
    \/ Dump
    \/ DumpReturn
    \/ Notify
    \/ NotifyLoadError
    \/ LoadErrorContinue
    \/ RebuildLock
    \/ UpdateLock
    \/ UpdateResolve
    \/ UpdateStart
    \/ UpdateStop
    \/ UpdateCommit
    \/ RebuildPublish
    \/ HandlerLock
    \/ HandlerReturn

Spec == Init /\ [][Next]_vars

\* ------------------------------------------------------ runs with fairness
\* The main and watcher goroutines keep running: every call of Init and
\* Shutdown returns and a goroutine waiting for a mutex that is released again
\* and again gets it (sync.Mutex hands over to a starving waiter); a request
\* that holds globalRouter returns. No more than MaxLiveUpdates events come.
NextLive == Next /\ (pc' = "rebuild" => updates < MaxLiveUpdates)

Fairness ==
    /\ SF_vars(RebuildLock)
    /\ WF_vars(UpdateLock)
    /\ WF_vars(UpdateResolve)
    /\ WF_vars(UpdateStart)
    /\ WF_vars(UpdateStop)
    /\ WF_vars(UpdateCommit)
    /\ WF_vars(RebuildPublish)
    /\ WF_vars(HandlerReturn)

SpecLive == Init /\ [][NextLive]_vars /\ Fairness

\* ------------------------------------------- resolveDependencies on its own
\* A call of resolveDependencies on a drawn registry and a drawn request list.
InitResolve ==
    /\ registry \in Graphs
    /\ \E m \in ModuleLists : cfg = [NoCfg EXCEPT !.Modules = m]
    /\ active = Empty
    /\ router = 0
    /\ engines = Empty
    /\ insts = Empty
    /\ pc = "call"
    /\ res = NoRes
    /\ newActive = Empty
    /\ r = 0
    /\ idx = 0
    /\ ret = 0
    /\ globalRouter = "free"
    /\ lock = "free"
    /\ rpc = "idle"
    /\ rret = 0
    /\ log = <<>>
    /\ orphans = {}
    /\ failedInit = {}
    /\ prevModules = <<>>
    /\ applied = <<>>
    /\ updates = 0
    /\ raw = <<>>
    /\ environ = <<>>
    /\ expanded = <<>>

\* ordered, err := resolveDependencies(cfg.Modules)
Resolve ==
    /\ pc = "call"
    /\ res' = resolveDependencies(cfg.Modules)
    /\ pc' = IF res'.err = "overflow" THEN "crashed" ELSE "returned"
    /\ UNCHANGED <<raw, environ, expanded>>
    /\ UNCHANGED <<registry, cfg, active, router, engines, insts, newActive, r,
                   idx, ret, globalRouter, lock, rpc, rret, log, orphans,
                   failedInit, prevModules, applied, updates>>

NextResolve == Resolve

SpecResolve == InitResolve /\ [][NextResolve]_vars

\* ------------------------------------------------------------- ExpandEnv
\* Strings are sequences of characters. NameChars stands for [A-Za-z0-9_];
\* the other characters are the ones envPattern gives a meaning to.
NameChars == {"A"}
Chars     == {"$", "{", "}", ":"} \cup NameChars
Strings   == SeqsUpTo(Chars, MaxStr)

\* the one variable the environment may hold, and what os.Getenv gives for
\* it: "" when it is unset or empty
EnvKey  == <<"A">>
EnvVals == {<<>>, <<"v">>}

\* os.Getenv(key)
Getenv(key) == IF key = EnvKey THEN environ ELSE <<>>

\* [A-Za-z0-9_]+ from position i of t, greedy: its last position, i - 1 if
\* no name character stands at i
nameEnd(t, i) ==
    LET ends == {j \in i..Len(t) : \A k \in i..j : t[k] \in NameChars}
    IN  IF ends = {} THEN i - 1 ELSE CHOOSE j \in ends : \A k \in ends : k <= j

\* the first "}" of t at or after position i, 0 if there is none
firstClose(t, i) ==
    LET cs == {j \in i..Len(t) : t[j] = "}"}
    IN  IF cs = {} THEN 0 ELSE CHOOSE j \in cs : \A k \in cs : j <= k

NoMatch == [ok |-> FALSE, end |-> 0, key |-> <<>>, def |-> <<>>]

\* the match of \$\{([A-Za-z0-9_]+)(?::([^}]+))?\} that starts at position i of
\* t: its last position and its two groups (def is "" when the optional group
\* took no part)
envPattern(t, i) ==
    IF i + 1 > Len(t) \/ t[i] # "$" \/ t[i + 1] # "{"
    THEN NoMatch
    ELSE LET ne == nameEnd(t, i + 2)
         IN  IF ne < i + 2 \/ ne + 1 > Len(t)
             THEN NoMatch
             ELSE IF t[ne + 1] = "}"
             THEN [ok |-> TRUE, end |-> ne + 1, key |-> SubSeq(t, i + 2, ne),
                   def |-> <<>>]
             ELSE IF t[ne + 1] = ":"
             THEN LET c == firstClose(t, ne + 2)
                  IN  IF c = 0 \/ c = ne + 2
                      THEN NoMatch
                      ELSE [ok |-> TRUE, end |-> c, key |-> SubSeq(t, i + 2, ne),
                            def |-> SubSeq(t, ne + 2, c - 1)]
             ELSE NoMatch

\* the default is taken before the environment is asked
replaceDefaultFirst(m, key, def) ==
    IF def # <<>> THEN def
    ELSE IF Getenv(key) # <<>> THEN Getenv(key)
    ELSE m

\* the function ExpandEnv hands to ReplaceAllStringFunc, for the match m with
\* groups key and def
replaceFunc(m, key, def) ==
    IF Getenv(key) # <<>> THEN Getenv(key)
    ELSE IF def # <<>> THEN def
    ELSE m

RECURSIVE ReplaceAllStringFunc(_, _)
\* the matches of envPattern in t from position i on, leftmost first and not
\* overlapping, each replaced by replaceFunc
ReplaceAllStringFunc(t, i) ==
    IF i > Len(t)
    THEN <<>>
    ELSE LET g == envPattern(t, i)
         IN  IF g.ok
             THEN replaceFunc(SubSeq(t, i, g.end), g.key, g.def)
                      \o ReplaceAllStringFunc(t, g.end + 1)
             ELSE <<t[i]>> \o ReplaceAllStringFunc(t, i + 1)

ExpandEnv(t) == ReplaceAllStringFunc(t, 1)

\* A call of ExpandEnv on a drawn string in a drawn environment.
InitExpand ==
    /\ raw \in Strings
    /\ environ \in EnvVals
    /\ expanded = <<>>
    /\ registry = RealRegistry
    /\ cfg = NoCfg
    /\ active = Empty
    /\ router = 0
    /\ engines = Empty
    /\ insts = Empty
    /\ pc = "call"
    /\ res = NoRes
    /\ newActive = Empty
    /\ r = 0
    /\ idx = 0
    /\ ret = 0
    /\ globalRouter = "free"
    /\ lock = "free"
    /\ rpc = "idle"
    /\ rret = 0
    /\ log = <<>>
    /\ orphans = {}
    /\ failedInit = {}
    /\ prevModules = <<>>
    /\ applied = <<>>
    /\ updates = 0

\* expanded := ExpandEnv(raw)
Expand ==
    /\ pc = "call"
    /\ expanded' = ExpandEnv(raw)
    /\ pc' = "returned"
    /\ UNCHANGED <<raw, environ>>
    /\ UNCHANGED <<registry, cfg, active, router, engines, insts, res, newActive,
                   r, idx, ret, globalRouter, lock, rpc, rret, log, orphans,
                   failedInit, prevModules, applied, updates>>

NextExpand == Expand

SpecExpand == InitExpand /\ [][NextExpand]_vars

\* ---------------------------------------------------------- ExpandConfig
\* A value of type any: a string, a map[string]any, a []any, or anything else
\* (a number, a bool, nil, a slice or map of another type), which only has an
\* identity here.
Str(x)   == [kind |-> "string", val |-> x]
MapV(f)  == [kind |-> "map", val |-> f]
ListV(q) == [kind |-> "list", val |-> q]
Other(x) == [kind |-> "other", val |-> x]

Keys == {"host", "port"}
Leaves ==
    {Str(<<"A">>), Str(<<"$", "{", "A", "}">>),
     Other(<<"7">>), Other(<<"$", "{", "A", "}">>)}

RECURSIVE Values(_)
\* the values with maps and lists nested d deep at most
Values(d) ==
    IF d = 0
    THEN Leaves
    ELSE Leaves
         \cup {MapV(f) : f \in UNION {[K -> Values(d - 1)] : K \in SUBSET Keys}}
         \cup {ListV(q) : q \in SeqsUpTo(Values(d - 1), MaxItems)}

\* ExpandConfig without the recursion: the strings of the value itself and of
\* a map's own entries are expanded
ExpandConfigTop(v) ==
    IF v.kind = "string"
    THEN Str(ExpandEnv(v.val))
    ELSE IF v.kind = "map"
    THEN MapV([k \in DOMAIN v.val |->
                  IF v.val[k].kind = "string"
                  THEN Str(ExpandEnv(v.val[k].val))
                  ELSE v.val[k]])
    ELSE v

RECURSIVE ExpandConfig(_)
\* switch val := v.(type): string, map[string]any, []any, default
ExpandConfig(v) ==
    IF v.kind = "string"
    THEN Str(ExpandEnv(v.val))
    ELSE IF v.kind = "map"
    THEN MapV([k \in DOMAIN v.val |-> ExpandConfig(v.val[k])])
    ELSE IF v.kind = "list"
    THEN ListV([i \in 1..Len(v.val) |-> ExpandConfig(v.val[i])])
    ELSE v

\* A call of ExpandConfig on a drawn value in a drawn environment.
InitConfig ==
    /\ raw \in Values(MaxNest)
    /\ environ \in EnvVals
    /\ expanded = <<>>
    /\ registry = RealRegistry
    /\ cfg = NoCfg
    /\ active = Empty
    /\ router = 0
    /\ engines = Empty
    /\ insts = Empty
    /\ pc = "call"
    /\ res = NoRes
    /\ newActive = Empty
    /\ r = 0
    /\ idx = 0
    /\ ret = 0
    /\ globalRouter = "free"
    /\ lock = "free"
    /\ rpc = "idle"
    /\ rret = 0
    /\ log = <<>>
    /\ orphans = {}
    /\ failedInit = {}
    /\ prevModules = <<>>
    /\ applied = <<>>
    /\ updates = 0

\* expanded := ExpandConfig(raw): the result is built in new maps and slices,
\* the argument is only read
ExpandCfg ==
    /\ pc = "call"
    /\ expanded' = ExpandConfig(raw)
    /\ pc' = "returned"
    /\ UNCHANGED <<raw, environ>>
    /\ UNCHANGED <<registry, cfg, active, router, engines, insts, res, newActive,
                   r, idx, ret, globalRouter, lock, rpc, rret, log, orphans,
                   failedInit, prevModules, applied, updates>>

NextConfig == ExpandCfg

SpecConfig == InitConfig /\ [][NextConfig]_vars

\* ------------------------------------------------------------ dependencies
Elems(s) == {s[i] : i \in 1..Len(s)}

\* the names Deps() of name's module declares
DepsOf(name) == IF name \in DOMAIN registry THEN Elems(registry[name]) ELSE {}

RECURSIVE Closure(_)
\* S with everything S depends on, directly or not
Closure(S) ==
    LET T == S \cup UNION {DepsOf(n) : n \in S}
    IN  IF T = S THEN S ELSE Closure(T)

\* what name depends on, directly or not
Reach(name) == Closure(DepsOf(name))

\* a dependency cycle can be reached from S
CycleFrom(S) == \E n \in Closure(S) : n \in Reach(n)

Requested == Elems(cfg.Modules)

\* the calls of op on instance inst during the Update in progress
Calls(op, inst) == {i \in 1..Len(log) : log[i].op = op /\ log[i].inst = inst}
CallsOn(name) == {i \in 1..Len(log) : log[i].name = name}

\* Update has run both loops and is about to replace m.active: active is the
\* set before the call, newActive the set after it, log the calls it made
UpdateDone == pc = "commit"

\* ------------------------------------------------------------------ claims

\* C1: in an Update whose resolution succeeds, every unit of the active set
\* before the call that is absent from the resolved order has Shutdown called
\* exactly once during the call.
C1_DroppedUnitShutDownOnce ==
    UpdateDone =>
        \A n \in DOMAIN active \ Elems(res.order) :
            Cardinality(Calls("Shutdown", active[n])) = 1

\* C2: when resolution fails in a rebuildRouter that follows a published
\* router, the router handler() returns stays the one published before.
C2_FailedResolveKeepsRouter ==
    [][(pc = "publish" /\ res.err # "" /\ router # 0) => router' = router]_vars

\* C3: an Update whose resolution fails returns at once, leaving m.active as
\* it was and calling Init and Shutdown on no instance.
C3_FailedResolveMutatesNothing ==
    [][(pc = "resolve" /\ res'.err # "") =>
          /\ pc' \in {"publish", "crashed"}
          /\ active' = active
          /\ insts' = insts
          /\ log' = log]_vars

\* a failed resolution while modules are active
C3_Witness ==
    /\ pc = "publish"
    /\ res.err = "unknown"
    /\ active # Empty
    /\ log = <<>>

\* C4: on a registry with a dependency cycle reachable from the requested
\* names, resolveDependencies returns a cyclic-dependency error and no order.
C4_CycleReported ==
    (pc # "call" /\ CycleFrom(Requested)) =>
        (pc = "returned" /\ res.err = "cycle" /\ res.order = <<>>)

\* C5: when no cycle and no unregistered name can be reached from the
\* requested names, resolveDependencies succeeds and every unit of the order
\* comes after everything it depends on, directly or not; requesting order
\* alone on the repository's registry gives auth, order.
C5_DependenciesFirst ==
    (pc # "call" /\ Closure(Requested) \subseteq DOMAIN registry
                 /\ ~CycleFrom(Requested)) =>
        /\ pc = "returned"
        /\ res.err = ""
        /\ Requested \subseteq Elems(res.order)
        /\ \A i \in 1..Len(res.order) :
               \A d \in Reach(res.order[i]) :
                   \E j \in 1..(i - 1) : res.order[j] = d
        /\ (registry = RealRegistry /\ cfg.Modules = <<"order">>)
               => res.order = <<"auth", "order">>

\* a chain of three resolved from its last unit
C5_Witness ==
    /\ pc = "returned"
    /\ cfg.Modules = <<"order">>
    /\ registry["order"] = <<"auth">>
    /\ registry["auth"] = <<"user">>
    /\ res.order = <<"user", "auth", "order">>

\* C6: when a requested name, or a name a dependency declaration leads to,
\* has no factory, resolveDependencies returns an unknown-module error naming
\* such a name, and no order.
C6_UnknownReported ==
    (pc # "call" /\ ~(Closure(Requested) \subseteq DOMAIN registry)) =>
        /\ pc = "returned"
        /\ res.err = "unknown"
        /\ res.unit \in Closure(Requested) \ DOMAIN registry
        /\ res.order = <<>>

\* no Update holds manager.lock
AtRest == lock = "free"

\* C7 (as claimed): at rest the names of the active set are the dependency
\* closure of the last applied snapshot.
C7_ActiveIsClosure ==
    AtRest => DOMAIN active = Closure(Elems(applied))

\* C7 (amended): at rest the names of the active set are the dependency
\* closure of the last applied snapshot less the units whose Init failed in
\* that Update.
C7_ActiveIsClosureLessFailed ==
    AtRest => DOMAIN active = Closure(Elems(applied)) \ failedInit

\* at rest after an Update that pulled in a dependency and had an Init fail
C7_Witness ==
    /\ pc = "watch"
    /\ failedInit # {}
    /\ active # Empty
    /\ ~(DOMAIN active \subseteq Elems(applied))

\* C8: every instance in the active set had Init return nil and has not had
\* Shutdown called.
C8_ActiveInitialized ==
    \A n \in DOMAIN active :
        /\ active[n] \in DOMAIN insts
        /\ insts[active[n]].name = n
        /\ insts[active[n]].state = "inited"

\* two modules active after a second Update in which another Init failed
C8_Witness ==
    /\ pc = "publish"
    /\ updates = 2
    /\ failedInit # {}
    /\ Cardinality(DOMAIN active) = 2

\* C9: an Update with the requested list of the Update before it keeps every
\* instance of the active set, calls Init on none of them, and calls Shutdown
\* on nothing.
C9_RepeatIsIdempotent ==
    (updates >= 2 /\ lock = "main" /\ cfg.Modules = prevModules) =>
        /\ \A i \in 1..Len(log) :
               log[i].op # "Shutdown" /\ log[i].name \notin DOMAIN active
        /\ UpdateDone =>
               \A n \in DOMAIN active :
                   n \in DOMAIN newActive /\ newActive[n] = active[n]

\* the second of two Updates with the same list, two modules active
C9_Witness ==
    /\ UpdateDone
    /\ updates >= 2
    /\ cfg.Modules = prevModules
    /\ Cardinality(DOMAIN active) = 2

FailedNow == {log[i].name : i \in {j \in 1..Len(log) :
                                      log[j].op = "Init" /\ ~log[j].ok}}

\* the units of the old active set the resolved order leaves out
Removed == DOMAIN active \ Elems(res.order)

\* C11: a still-requested unit whose block changed is initialized again with
\* the new block, and the instance serving it afterwards holds that block.
C11_ChangedBlockReinitialized ==
    UpdateDone =>
        \A n \in DOMAIN active \cap Elems(res.order) :
            cfg.Configs[n] # insts[active[n]].cfg =>
                /\ \E i \in 1..Len(log) : /\ log[i].op = "Init"
                                          /\ log[i].name = n
                                          /\ log[i].cfg = cfg.Configs[n]
                /\ n \in DOMAIN newActive
                /\ insts[newActive[n]].cfg = cfg.Configs[n]

\* C12: every removed unit is shut down, and a removed unit that depends on
\* another removed unit is shut down before it.
C12_DependentsShutDownFirst ==
    UpdateDone =>
        \A n \in Removed : \A m \in Removed :
            n \in Reach(m) =>
                \E i, j \in 1..Len(log) :
                    /\ i < j
                    /\ log[i].op = "Shutdown" /\ log[i].name = m
                    /\ log[j].op = "Shutdown" /\ log[j].name = n

\* C13: a failed Init excludes that unit alone: every unit of the resolved
\* order outside the old active set has its Init called, the new active set
\* is the resolved order less the units whose Init failed, and the engine
\* Update returns carries the routes of exactly the new active set.
C13_FailedInitExcludesOnlyItself ==
    UpdateDone =>
        /\ \A n \in Elems(res.order) \ DOMAIN active :
               Cardinality({i \in CallsOn(n) : log[i].op = "Init"}) = 1
        /\ DOMAIN newActive = Elems(res.order) \ FailedNow
        /\ Elems(engines[r]) = Range(newActive)

\* an Init failed, a later Init succeeded and a unit was kept
C13_Witness ==
    /\ UpdateDone
    /\ Len(log) = 2
    /\ ~log[1].ok
    /\ log[2].ok
    /\ DOMAIN active \cap DOMAIN newActive # {}

\* C14: the units whose Init failed are in what Update returns to its caller
\* beside the engine.
C14_FailuresReturned ==
    (pc = "publish" /\ res.err = "") => failedInit \subseteq UpdateErrs

\* C15: the engine Update is still registering routes on is neither the
\* published router nor what a handler() call returned; both are engines
\* that were complete when rebuildRouter assigned them.
C15_PublishAtomic ==
    /\ r # 0 => (router # r /\ rret # r)
    /\ router # 0 => router \in DOMAIN engines
    /\ rret # 0 => rret \in DOMAIN engines
    /\ rpc = "locked" => pc \in {"watch", "loaderr", "rebuild"}

\* an Update half way through its start loop while a request holds the
\* router published before
C15_Witness ==
    /\ pc = "start"
    /\ idx = 2
    /\ Len(engines[r]) = 1
    /\ router # 0
    /\ rret = router

\* C16: while Update is running its Init and Shutdown calls, a handler() call
\* can take globalRouter and return.
C16_ReaderNotBlocked ==
    (Serving /\ rpc = "idle" /\ pc \in {"start", "stop"}) => ENABLED HandlerLock

\* C17: an Update begins only when none is running, under globalRouter, and a
\* new rebuildRouter is entered only after the one before it has returned.
C17_OneUpdateAtATime ==
    [][/\ updates' # updates =>
              (lock = "free" /\ lock' = "main" /\ globalRouter = "main")
       /\ lock' = "main" => globalRouter' = "main"
       /\ (pc' = "rebuild" /\ pc # "rebuild") =>
              (pc \in {"main", "watch"} /\ lock = "free"
                                        /\ globalRouter # "main")]_vars

\* a trigger taken after the startup Update has returned, waiting for a
\* request to leave handler()
C17_Witness ==
    /\ pc = "rebuild"
    /\ updates >= 1
    /\ globalRouter = "reader"

\* C18: after a load error the watcher goes back to waiting: no Update is
\* run, m.active and router stay, no instance is made, initialized or shut
\* down.
C18_LoadErrorChangesNothing ==
    [][pc = "loaderr" =>
          /\ pc' \in {"loaderr", "watch"}
          /\ active' = active
          /\ router' = router
          /\ updates' = updates
          /\ lock' = lock
          /\ log' = log
          /\ \A i \in DOMAIN insts' : i \in DOMAIN insts /\ insts'[i] = insts[i]]_vars

\* a load error while modules are active and a router is published
C18_Witness ==
    /\ pc = "loaderr"
    /\ active # Empty
    /\ router # 0

\* dependency d of a unit whose Init is the i-th call was kept, or had its
\* own Init called before
DepHandled(i, d) ==
    \/ d \in DOMAIN active /\ d \in DOMAIN newActive /\ newActive[d] = active[d]
    \/ \E j \in 1..(i - 1) : log[j].op = "Init" /\ log[j].name = d

\* dependency d is in the new active set when the i-th call is made
DepActive(i, d) ==
    \/ d \in DOMAIN active /\ d \in DOMAIN newActive /\ newActive[d] = active[d]
    \/ \E j \in 1..(i - 1) : log[j].op = "Init" /\ log[j].name = d /\ log[j].ok

\* C19 (as claimed): Init is called on a unit only when everything it depends
\* on is in the new active set.
C19_InitAfterDepsActive ==
    \A i \in 1..Len(log) :
        log[i].op = "Init" => \A d \in Reach(log[i].name) : DepActive(i, d)

\* C19 (amended): Init is called on a unit only after everything it depends
\* on, requested or not, was kept or had its own Init called earlier in the
\* same Update; such a dependency is in the new active set unless its Init
\* failed.
C19_InitAfterDepsHandled ==
    \A i \in 1..Len(log) :
        log[i].op = "Init" =>
            \A d \in Reach(log[i].name) :
                /\ DepHandled(i, d)
                /\ d \in DOMAIN newActive \/ d \in FailedNow

\* only order requested: Init of auth fails, Init of order is called after it
C19_Witness ==
    /\ cfg.Modules = <<"order">>
    /\ Len(log) = 2
    /\ log[1].name = "auth" /\ ~log[1].ok
    /\ log[2].name = "order" /\ log[2].op = "Init"

\* the instances of the new active set in resolved order
RoutesInOrder ==
    LET InNew(n) == n \in DOMAIN newActive
        kept == SelectSeq(res.order, InNew)
    IN  [i \in 1..Len(kept) |-> newActive[kept[i]]]

\* C20: the engine a successful Update returns carries the routes of exactly
\* the new active set, registered in resolved order, a dependency before the
\* units that depend on it.
C20_SurfaceInResolvedOrder ==
    /\ UpdateDone =>
           /\ engines[r] = RoutesInOrder
           /\ \A i \in 1..Len(engines[r]) :
                  \A d \in Reach(insts[engines[r][i]].name) \cap DOMAIN newActive :
                      \E j \in 1..(i - 1) : engines[r][j] = newActive[d]
    /\ (pc = "publish" /\ res.err = "") =>
           /\ Elems(engines[ret]) = Range(active)
           /\ Len(engines[ret]) = Cardinality(DOMAIN active)

\* three units on the new engine, one kept and the others started
C20_Witness ==
    /\ UpdateDone
    /\ Len(engines[r]) = 3
    /\ DOMAIN active \cap DOMAIN newActive # {}
    /\ Len(log) = 2

\* resolveDependencies returned an order
Resolved == pc = "returned" /\ res.err = ""

\* C21: in a successful resolution every name is in the order once, however
\* often it is requested or depended on, and the names of the order are the
\* requested names with all they depend on.
C21_EachUnitOnce ==
    Resolved =>
        /\ NoDup(res.order)
        /\ Elems(res.order) = Closure(Requested)

\* two requested units share a dependency
C21_Witness ==
    /\ Resolved
    /\ cfg.Modules = <<"user", "order">>
    /\ "auth" \in DepsOf("user") \cap DepsOf("order")
    /\ res.order = <<"auth", "user", "order">>

\* where name stands in the resolved order
Pos(name) == CHOOSE i \in 1..Len(res.order) : res.order[i] = name

\* the first requested name that needs name
FirstReq(name) ==
    CHOOSE i \in 1..Len(cfg.Modules) :
        /\ name \in Closure({cfg.Modules[i]})
        /\ \A j \in 1..(i - 1) : name \notin Closure({cfg.Modules[j]})

C23_ResolveNoSideEffect ==
    [][/\ pc = "resolve" =>
              /\ insts' = insts
              /\ log' = log
              /\ active' = active
              /\ newActive' = newActive
              /\ \A e \in DOMAIN engines' :
                     engines'[e] = IF e \in DOMAIN engines THEN engines[e] ELSE <<>>
       /\ (Len(log') > Len(log) /\ log'[Len(log')].op = "Init") =>
              /\ pc = "start"
              /\ log'[Len(log')].inst \notin DOMAIN insts
              /\ log'[Len(log')].inst \notin Range(active)]_vars

\* a resolution of two or more units has returned while modules are active
C23_Witness ==
    /\ pc = "start"
    /\ idx = 1
    /\ Len(res.order) >= 2
    /\ active # Empty
    /\ log = <<>>

\* the Init calls made on name's module during the Update in progress
InitCalls(name) == {i \in 1..Len(log) : log[i].op = "Init" /\ log[i].name = name}

\* C24: a unit of the resolved order that was not active is constructed anew
\* and has Init called once, with cfg.Configs of its own name (the empty
\* block when the snapshot declares none).
C24_InitOnceWithOwnBlock ==
    UpdateDone =>
        \A n \in Elems(res.order) \ DOMAIN active :
            /\ Cardinality(InitCalls(n)) = 1
            /\ \A i \in InitCalls(n) :
                   /\ log[i].cfg = cfg.Configs[n]
                   /\ log[i].inst \notin Range(active)
                   /\ insts[log[i].inst].name = n
                   /\ insts[log[i].inst].cfg = cfg.Configs[n]

\* one unit initialized with a declared block, another with none
C24_Witness ==
    /\ UpdateDone
    /\ \E i, j \in 1..Len(log) :
           /\ log[i].op = "Init" /\ log[i].cfg = "a" /\ cfg.Configs[log[i].name] = "a"
           /\ log[j].op = "Init" /\ log[j].cfg = "none"

\* C25: the routes of the published router and of a router handler() has
\* returned never change; Update registers on an engine that did not exist
\* before, and a publish puts that engine in the place of the old one.
C25_PublishedNeverMutated ==
    [][/\ \A e \in ({router, rret} \ {0}) \cap DOMAIN engines' :
              engines'[e] = engines[e]
       /\ (r' # r /\ r' # 0) => r' \notin DOMAIN engines
       /\ router' # router => (router' = ret /\ router' \notin {router, rret})]_vars

\* a request holds a superseded router while a later Update registers routes
C25_Witness ==
    /\ pc = "start"
    /\ idx = 2
    /\ rret # 0
    /\ rret # router
    /\ engines[rret] # <<>>
    /\ engines[r] # <<>>

\* C26: every removed unit has its Shutdown called, whatever the Shutdown of
\* another returned, and is absent from the new active set.
C26_ShutdownBestEffort ==
    UpdateDone =>
        \A n \in Removed :
            /\ \E i \in 1..Len(log) : log[i].op = "Shutdown" /\ log[i].name = n
            /\ n \notin DOMAIN newActive

\* C30: a unit with an initialized instance that was never shut down has no
\* other instance in the active set, old or new.
C30_OneLiveInstance ==
    \A n \in orphans : n \notin DOMAIN active /\ n \notin DOMAIN newActive

\* the positions of main and the watcher inside rebuildRouter
InRebuild == {"rebuild", "update", "resolve", "start", "stop", "commit", "publish"}

\* C27: a loaded snapshot stays the one being reconciled until rebuildRouter
\* publishes, and the engine the Update of an event builds becomes router.
C27_NotifiedReconcilePublished ==
    /\ [][(pc \in InRebuild /\ pc' \in InRebuild) => cfg' = cfg]_vars
    /\ \A u \in 2..MaxLiveUpdates :
           (pc = "rebuild" /\ updates = u - 1) ~> (pc = "watch" /\ router = u)

\* the router built for an event was published and returned by handler()
C27_Witness ==
    /\ pc = "watch"
    /\ updates = 2
    /\ router = 2
    /\ rret = 2
    /\ engines[2] # <<>>

\* C29: once main is in dump mode it stays there until it exits, and nothing
\* is started: no Update, no instance, no engine, m.active empty, router nil.
C29_DumpStartsNothing ==
    [][/\ pc \in {"dump", "exit"} => pc' \in {"dump", "exit"}
       /\ pc' \in {"dump", "exit"} =>
              /\ updates' = 0
              /\ active' = Empty
              /\ insts' = Empty
              /\ engines' = Empty
              /\ log' = <<>>
              /\ router' = 0
              /\ rret' = 0]_vars

\* dump mode has loaded a configuration that names modules
C29_Witness ==
    /\ pc = "dump"
    /\ cfg.Modules # <<>>

\* a variable name: one or more name characters
IsName(k) == Len(k) >= 1 /\ \A i \in 1..Len(k) : k[i] \in NameChars

\* a default: one or more characters, none of them "}"
IsDefault(d) == Len(d) >= 1 /\ \A i \in 1..Len(d) : d[i] # "}"

\* the readings of u as a placeholder ${VAR} or ${VAR:default}
Placeholder(u) ==
    IF Len(u) < 4 \/ u[1] # "$" \/ u[2] # "{" \/ u[Len(u)] # "}"
    THEN {}
    ELSE {[key |-> SubSeq(u, 3, Len(u) - 1), def |-> <<>>] :
              x \in {y \in {1} : IsName(SubSeq(u, 3, Len(u) - 1))}}
         \cup
         {[key |-> SubSeq(u, 3, c - 1), def |-> SubSeq(u, c + 1, Len(u) - 1)] :
              c \in {d \in 4..(Len(u) - 2) :
                        /\ u[d] = ":"
                        /\ IsName(SubSeq(u, 3, d - 1))
                        /\ IsDefault(SubSeq(u, d + 1, Len(u) - 1))}}

\* what a placeholder u read as p stands for
ValueOf(p, u) ==
    IF Getenv(p.key) # <<>> THEN Getenv(p.key)
    ELSE IF p.def # <<>> THEN p.def
    ELSE u

RECURSIVE Expected(_, _)
\* t from position i on with each placeholder, leftmost first, replaced by
\* what it stands for and every other character kept
Expected(t, i) ==
    IF i > Len(t)
    THEN <<>>
    ELSE LET js == {j \in i..Len(t) : Placeholder(SubSeq(t, i, j)) # {}}
         IN  IF js = {}
             THEN <<t[i]>> \o Expected(t, i + 1)
             ELSE LET j == CHOOSE k \in js : TRUE
                      u == SubSeq(t, i, j)
                      p == CHOOSE q \in Placeholder(u) : TRUE
                  IN  ValueOf(p, u) \o Expected(t, j + 1)

\* C28: ExpandEnv gives its argument with every placeholder replaced by the
\* value of its variable, else by its default, else left as it is, and with
\* everything else unchanged; a placeholder has one reading and one end.
C28_PlaceholdersReplaced ==
    pc = "returned" =>
        /\ expanded = Expected(raw, 1)
        /\ \A i \in 1..Len(raw) :
               Cardinality({j \in i..Len(raw) :
                               Placeholder(SubSeq(raw, i, j)) # {}}) <= 1
        /\ \A i, j \in 1..Len(raw) :
               Cardinality(Placeholder(SubSeq(raw, i, j))) <= 1

\* an unset variable with a default, between text that stays
C28_Witness ==
    /\ pc = "returned"
    /\ raw = <<"A", "$", "{", "A", ":", ":", "}", "A">>
    /\ environ = <<>>
    /\ expanded = <<"A", ":", "A">>

\* neither main nor the watcher is inside rebuildRouter
Idle == pc \in {"watch", "loaderr"}

\* C31: with no rebuildRouter running, the routes of router are those of the
\* instances of m.active, no more and no less.
C31_RouterMatchesActive ==
    (Idle /\ router # 0) => Elems(engines[router]) = Range(active)

\* the Update before this one ended in a resolution error
PrevFailed == updates >= 2 /\ resolveDependencies(prevModules).err # ""

\* the units the last Update that went through left active
Survivors == Closure(Elems(applied)) \ failedInit

\* C32: after a load error the watcher waits for the next event, after a
\* resolution error both mutexes are free again; in the Update of the next
\* valid snapshot the units that were active through the failure are kept
\* with no Init call, and the engine it returns carries the active set.
C32_ReconcileAfterFailure ==
    /\ pc = "loaderr" => ENABLED LoadErrorContinue
    /\ Idle => (lock = "free" /\ globalRouter # "main")
    /\ (UpdateDone /\ PrevFailed) =>
           \A n \in Survivors \cap Elems(res.order) :
               /\ n \in DOMAIN active
               /\ n \in DOMAIN newActive
               /\ newActive[n] = active[n]
               /\ InitCalls(n) = {}
               /\ \E i \in 1..Len(engines[r]) : engines[r][i] = active[n]
    /\ (pc = "publish" /\ res.err = "" /\ PrevFailed) =>
           (ret # 0 /\ Elems(engines[ret]) = Range(active))

\* a valid snapshot after a resolution error: one unit kept, another started
C32_Witness ==
    /\ UpdateDone
    /\ PrevFailed
    /\ Survivors \cap Elems(res.order) # {}
    /\ Len(log) >= 1

\* C33: a unit whose Init failed is not in m.active, and the next Update that
\* has it in its resolved order constructs it anew and calls Init again.
C33_FailedInitRetried ==
    /\ AtRest => failedInit \cap DOMAIN active = {}
    /\ UpdateDone =>
           \A n \in failedInit \cap Elems(res.order) :
               /\ n \notin DOMAIN active
               /\ Cardinality(InitCalls(n)) = 1
               /\ \A i \in InitCalls(n) : /\ log[i].inst[1] = updates
                                          /\ log[i].inst \notin Range(active)

\* a unit whose Init failed before is initialized with success this time
C33_Witness ==
    /\ UpdateDone
    /\ \E n \in failedInit : \E i \in InitCalls(n) : log[i].ok

\* C34: at rest every unit of m.active is in the dependency closure of the
\* snapshot of the last Update whose resolution succeeded.
C34_ActiveWithinLastResolved ==
    AtRest => DOMAIN active \subseteq Closure(Elems(applied))

\* at rest after a unit was dropped and a later resolution failed
C34_Witness ==
    /\ pc = "watch"
    /\ orphans # {}
    /\ active # Empty
    /\ PrevFailed

\* C35: m.lock is taken only by the holder of globalRouter, both are free
\* whenever rebuildRouter is not running, and with every Init and Shutdown
\* returning each rebuildRouter returns, each handler() call that holds
\* globalRouter returns and globalRouter comes free for a waiting one.
C35_NoDeadlock ==
    /\ [][(lock' = "main" /\ lock # "main") => globalRouter = "main"]_vars
    /\ [](pc \in {"main", "watch", "loaderr", "rebuild"} =>
              (lock = "free" /\ globalRouter # "main"))
    /\ [](pc = "publish" => lock = "free")
    /\ (pc = "rebuild") ~> (pc = "watch")
    /\ (rpc = "locked") ~> (rpc = "idle")
    /\ (globalRouter # "free") ~> (globalRouter = "free")

\* a rebuildRouter waits for globalRouter after an Update that failed to
\* resolve, while a request is inside handler()
C35_Witness ==
    /\ pc = "rebuild"
    /\ rpc = "locked"
    /\ updates = 1
    /\ resolveDependencies(prevModules).err # ""

\* C36: a handler() call returns an engine, never nil: router is set from the
\* time requests are served and globalRouter is not held by rebuildRouter.
C36_HandlerNeverNil ==
    [][/\ (Serving /\ globalRouter' # "main") =>
              (router' # 0 /\ router' \in DOMAIN engines')
       /\ (rpc = "locked" /\ rpc' = "idle") =>
              (rret' # 0 /\ rret' \in DOMAIN engines')]_vars

\* handler() returned the engine of a startup Update whose resolution failed
C36_Witness ==
    /\ updates = 1
    /\ pc = "watch"
    /\ applied = <<>>
    /\ router # 0
    /\ rret = router
    /\ engines[rret] = <<>>

\* the routes on the engine being built that belong to name's module
RoutesOf(name) == {i \in 1..Len(engines[r]) : insts[engines[r][i]].name = name}

\* C37: on the engine Update built, each unit of the new active set is
\* registered once, by the instance in that set, and nothing else is.
C37_RegisteredOnce ==
    UpdateDone =>
        /\ \A n \in DOMAIN newActive :
               /\ Cardinality(RoutesOf(n)) = 1
               /\ \A i \in RoutesOf(n) : engines[r][i] = newActive[n]
        /\ Len(engines[r]) = Cardinality(DOMAIN newActive)

\* a name requested together with its own dependency, one kept, one started
C37_Witness ==
    /\ UpdateDone
    /\ cfg.Modules = <<"order", "auth">>
    /\ Len(engines[r]) = 2
    /\ Len(log) = 1

RECURSIVE ExpandedFrom(_, _)
\* w is v with ExpandEnv applied to its strings and nothing else changed
ExpandedFrom(v, w) ==
    /\ w.kind = v.kind
    /\ IF v.kind = "string"
       THEN w.val = ExpandEnv(v.val)
       ELSE IF v.kind = "map"
       THEN /\ DOMAIN w.val = DOMAIN v.val
            /\ \A k \in DOMAIN v.val : ExpandedFrom(v.val[k], w.val[k])
       ELSE IF v.kind = "list"
       THEN /\ Len(w.val) = Len(v.val)
            /\ \A i \in 1..Len(v.val) : ExpandedFrom(v.val[i], w.val[i])
       ELSE w.val = v.val

\* C38: ExpandConfig returns its argument with ExpandEnv applied to every
\* string in it, at any depth of maps and lists: same keys, same lengths and
\* order, other leaves as they were; the argument itself stays as it was.
C38_ExpandConfigStructure ==
    [][(pc = "call" /\ pc' = "returned") =>
           (raw' = raw /\ ExpandedFrom(raw, expanded'))]_vars

\* a string and a non-string leaf with the same text, in a list in a map
C38_Witness ==
    /\ pc = "returned"
    /\ environ = <<"v">>
    /\ raw = MapV("host" :> ListV(<<Str(<<"$", "{", "A", "}">>),
                                    Other(<<"$", "{", "A", "}">>)>>))
    /\ expanded = MapV("host" :> ListV(<<Str(<<"v">>),
                                         Other(<<"$", "{", "A", "}">>)>>))

====
